---- MODULE Spec2Model ----
(***************************************************************************)
(* AeroVision: the flight-price dashboard (src/src/App.tsx) and its two    *)
(* prediction proxies, the Express route (src/server.ts) and the           *)
(* serverless handler (src/unnamed/part_000).                              *)
(*                                                                         *)
(* Spec      : the browser session of App (searches, weather, prediction). *)
(* ProxySpec : the proxies serving inbound requests.                       *)
(* EnvSpec   : the proxies while process.env changes between requests.     *)
(* DisplaySpec : one settled axios.post and the text shown for it.         *)
(* PromptSpec  : the price summary fetchAIPrediction puts in the prompt.   *)
(***************************************************************************)
EXTENDS Integers, Sequences, FiniteSets, TLC

VARIABLES
    \* ---- App component state (useState hooks) ----
    origin, destination, loading, flightData, prediction, predicting, weather,
    \* ---- asynchronous work of the session ----
    searches,      \* searches[s]: position of the s-th handleSearch call
    nSearch,       \* number of handleSearch calls made so far
    resolveOrder,  \* prediction requests in the order their responses settled
    lastResult,    \* what the most recently settled response set as prediction
    clearedSince,  \* a handleSearch reset prediction after the last settlement
    \* ---- proxy state ----
    env,           \* process.env of the proxy
    reqs,          \* reqs[r]: one inbound HTTP request and what was done for it
    \* ---- a single settled axios.post, input and displayed value ----
    call

appVars == <<origin, destination, loading, flightData, prediction, predicting,
             weather, searches, nSearch, resolveOrder, lastResult, clearedSince>>
proxyVars == <<env, reqs>>
vars == <<appVars, proxyVars, call>>

\* ------------------------------------------------------------------------
\* Bounds
\* ------------------------------------------------------------------------
MaxSearches == 2
MaxRequests == 2

\* ------------------------------------------------------------------------
\* JavaScript values, as far as the code inspects them
\* ------------------------------------------------------------------------
Undefined == [t |-> "undefined", v |-> ""]
Null == [t |-> "null", v |-> ""]
Str(s) == [t |-> "string", v |-> s]
Num(s) == [t |-> "number", v |-> s]
Obj == [t |-> "object", v |-> "{}"]

\* ToBoolean, as `||` applies it
Truthy(x) ==
    CASE x.t = "undefined" -> FALSE
      [] x.t = "null" -> FALSE
      [] x.t = "string" -> x.v # ""
      [] x.t = "number" -> x.v \notin {"0", "NaN"}
      [] OTHER -> TRUE

\* a || b
JsOr(a, b) == IF Truthy(a) THEN a ELSE b

\* ToString, as a template literal applies it
ToStr(x) ==
    CASE x.t = "undefined" -> "undefined"
      [] x.t = "null" -> "null"
      [] x.t = "object" -> "[object Object]"
      [] OTHER -> x.v

IsString(x) == x.t = "string"

\* ------------------------------------------------------------------------
\* Errors thrown inside the proxies, and the failure relay's detail string
\* ------------------------------------------------------------------------
\* `const { prompt } = req.body` with req.body undefined
DestructureError ==
    [name |-> "TypeError",
     message |-> "Cannot destructure property 'prompt' of 'req.body' as it is undefined.",
     type |-> "", code |-> ""]

\* throw new Error("Missing ARK_API_KEY environment variable")
MissingKeyError ==
    [name |-> "Error", message |-> "Missing ARK_API_KEY environment variable",
     type |-> "", code |-> ""]

\* what client.chat.completions.create can reject with
UpstreamErrors ==
    { [name |-> "AuthenticationError", message |-> "401 The API key is invalid",
       type |-> "Unauthorized", code |-> "AuthenticationError"],
      [name |-> "APIConnectionError", message |-> "Connection error.",
       type |-> "", code |-> ""],
      [name |-> "Error", message |-> "", type |-> "", code |-> ""] }

NoError == [name |-> "", message |-> "", type |-> "", code |-> ""]

\* Error.prototype.toString
ErrToString(e) ==
    IF e.name = "" THEN e.message
    ELSE IF e.message = "" THEN e.name
    ELSE e.name \o ": " \o e.message

\* error.message || error.toString()
ErrDetails(e) == IF e.message # "" THEN e.message ELSE ErrToString(e)

\* error.type || 'Unknown', error.code || 'Unknown'
OrUnknown(s) == IF s # "" THEN s ELSE "Unknown"

\* ------------------------------------------------------------------------
\* fetchAIPrediction: response normalisation and error presentation
\* ------------------------------------------------------------------------
FallbackText == "Unable to generate prediction at this time."

\* One access path choices[0].message.content below some root: `depth` is the
\* number of leading segments (choices, [0], message, content) that resolve,
\* `leaf` the value found when all four do.
PathSegments == <<"choices", "0", "message", "content">>
Chain(depth, leaf) == [depth |-> depth, leaf |-> leaf]

\* root?.choices?.[0]?.message?.content
ProbeContent(chain) ==
    IF chain.depth < Len(PathSegments) THEN Undefined ELSE chain.leaf

\* response.data?.choices?.[0]?.message?.content ||
\* response.data?.data?.choices?.[0]?.message?.content || "Unable to ..."
NormalizeResponse(data) ==
    JsOr(JsOr(ProbeContent(data.direct), ProbeContent(data.wrapped)), Str(FallbackText))

\* err.message || err.response?.data?.details  (precedence reversed)
ErrorDetailsMessageFirst(err) == JsOr(err.message, err.details)

\* err.response?.data?.details || err.message
ErrorDetails(err) == JsOr(err.details, err.message)

\* `Analysis Error: ${errorDetails}. Please check API Key configuration.`
FormatError(err) ==
    Str("Analysis Error: " \o ToStr(ErrorDetails(err))
        \o ". Please check API Key configuration.")

\* ---- what axios.post('/api/predict-price') can settle with ----
Leaves ==
    { Null, Str(""), Str("Buy now"), Str("Wait"), Num("0"), Num("42"), Obj }
Chains ==
    { Chain(d, Undefined) : d \in {0, 2} } \cup { Chain(Len(PathSegments), l) : l \in Leaves }
Bodies == [direct : Chains, wrapped : Chains]

\* details strings the repository's proxies put in an error body
ProxyDetails ==
    { ErrDetails(e) : e \in UpstreamErrors \cup {DestructureError, MissingKeyError} }

NoBody == [direct |-> Chain(0, Undefined), wrapped |-> Chain(0, Undefined)]
OkOutcomes ==
    { [kind |-> "ok", data |-> b, details |-> Undefined, message |-> Undefined] : b \in Bodies }
\* non-2xx: AxiosError with a response; the body may carry `details` or not
HttpErrorOutcomes ==
    { [kind |-> "http", data |-> NoBody, details |-> d,
       message |-> Str("Request failed with status code 500")] :
         d \in { Str(x) : x \in ProxyDetails } \cup {Undefined} }
\* transport failure: AxiosError without a response
TransportOutcomes ==
    { [kind |-> "transport", data |-> NoBody, details |-> Undefined, message |-> Str(m)] :
         m \in {"Network Error"} }
Outcomes == OkOutcomes \cup HttpErrorOutcomes \cup TransportOutcomes

\* the value the settled call passes to setPrediction
Displayed(o) == IF o.kind = "ok" THEN NormalizeResponse(o.data) ELSE FormatError(o)

\* no call under observation
NoCall == [settled |-> FALSE]



\* ------------------------------------------------------------------------
\* fetchWeather
\* ------------------------------------------------------------------------
\* keys of airportCoords
AirportCodes ==
    { "PEK", "TYO", "HND", "NRT", "LAX", "JFK", "LHR", "DXB", "SIN", "CDG",
      "AMS", "FRA", "HKG", "SYD" }

\* codes the user types into the Origin and Destination inputs
TypedCodes == { "TYO", "XYZ" }

NoWeather == [temp |-> 0, condition |-> "null", windSpeed |-> 0]

\* getWeatherCondition
GetWeatherCondition(wmoCode) ==
    IF wmoCode = 0 THEN "Clear Sky"
    ELSE IF wmoCode >= 1 /\ wmoCode <= 3 THEN "Partly Cloudy"
    ELSE IF wmoCode >= 45 /\ wmoCode <= 48 THEN "Foggy"
    ELSE IF wmoCode >= 51 /\ wmoCode <= 67 THEN "Rainy"
    ELSE IF wmoCode >= 71 /\ wmoCode <= 77 THEN "Snowy"
    ELSE IF wmoCode >= 80 /\ wmoCode <= 82 THEN "Heavy Rain"
    ELSE IF wmoCode >= 95 THEN "Thunderstorm"
    ELSE "Unknown"

\* the random reading set for a code that is not in airportCoords
RandomWeather ==
    { [temp |-> 20 + t, condition |-> c, windSpeed |-> 10 + w] :
        t \in {9}, c \in {"Sunny", "Cloudy", "Clear"}, w \in {14} }

\* readings built from a well-formed Open-Meteo answer (already rounded)
WmoCodes == { 0, 2, 45, 61, 75, 81, 96, 4 }
LiveWeather ==
    { [temp |-> 18, condition |-> GetWeatherCondition(c), windSpeed |-> 7] : c \in WmoCodes }

\* the catch block's placeholder
UnavailableWeather == [temp |-> 22, condition |-> "Data Unavailable", windSpeed |-> 0]

\* what the awaited axios.get ends in: a usable answer, an answer without
\* `current` (the property read throws inside the try), or a rejection
WeatherAfterGet ==
    LiveWeather \cup {UnavailableWeather}

\* ------------------------------------------------------------------------
\* The session of App
\* ------------------------------------------------------------------------
SearchIds == 1..MaxSearches

\* a handleSearch call that has not been made yet
IdleSearch == [pc |-> "idle", from |-> "", to |-> "", data |-> 0]

\* a handleSearch call all of whose work has finished
DoneSearch == [pc |-> "done", from |-> "", to |-> "", data |-> 0]

AppInit ==
    /\ origin = "TYO"
    /\ destination = "TYO"
    /\ loading = FALSE
    /\ flightData = 0
    /\ prediction = Null
    /\ predicting = FALSE
    /\ weather = NoWeather
    /\ searches = [s \in SearchIds |-> IdleSearch]
    /\ nSearch = 0
    /\ resolveOrder = <<>>
    /\ lastResult = Null
    /\ clearedSince = FALSE


\* onChange of the Origin input
SetOrigin(code) ==
    /\ code # origin
    /\ origin' = code
    /\ UNCHANGED <<destination, loading, flightData, prediction, predicting, weather,
                   searches, nSearch, resolveOrder, lastResult, clearedSince>>
    /\ UNCHANGED <<proxyVars, call>>

\* onChange of the Destination input
SetDestination(code) ==
    /\ code # destination
    /\ destination' = code
    /\ UNCHANGED <<origin, loading, flightData, prediction, predicting, weather,
                   searches, nSearch, resolveOrder, lastResult, clearedSince>>
    /\ UNCHANGED <<proxyVars, call>>

\* handleSearch behind a button that stays enabled while loading
HandleSearchNotDisabled ==
    /\ nSearch < MaxSearches
    /\ nSearch' = nSearch + 1
    /\ loading' = TRUE
    /\ prediction' = Null
    /\ weather' = NoWeather
    /\ searches' = [searches EXCEPT ![nSearch + 1] =
                        [pc |-> "timer", from |-> origin, to |-> destination, data |-> 0]]
    /\ clearedSince' = TRUE
    /\ UNCHANGED <<origin, destination, flightData, predicting, resolveOrder, lastResult>>
    /\ UNCHANGED <<proxyVars, call>>

\* handleSearch up to setTimeout: the mount effect, or a click on Analyze,
\* which is disabled while loading
HandleSearch ==
    /\ nSearch < MaxSearches
    /\ ~loading
    /\ nSearch' = nSearch + 1
    /\ loading' = TRUE
    /\ prediction' = Null
    /\ weather' = NoWeather
    /\ searches' = [searches EXCEPT ![nSearch + 1] =
                        [pc |-> "timer", from |-> origin, to |-> destination, data |-> 0]]
    /\ clearedSince' = TRUE
    /\ UNCHANGED <<origin, destination, flightData, predicting, resolveOrder, lastResult>>
    /\ UNCHANGED <<proxyVars, call>>

\* the state fetchAIPrediction leaves when it suspends on axios.post:
\* setLoading(false) of the caller, setPredicting(true), request in flight
IssuePrediction(s) ==
    /\ loading' = FALSE
    /\ predicting' = TRUE

\* the timeout callback with a destination that is not in airportCoords:
\* fetchWeather sets a random reading and returns, so the callback runs on to
\* setLoading(false) and fetchAIPrediction without waiting on the network
TimerUnknownAirport(s, w) ==
    /\ searches[s].pc = "timer"
    /\ searches[s].to \notin AirportCodes
    /\ w \in RandomWeather
    /\ flightData' = s
    /\ weather' = w
    /\ IssuePrediction(s)
    /\ searches' = [searches EXCEPT ![s].pc = "predicting", ![s].data = s]
    /\ UNCHANGED <<origin, destination, prediction, nSearch, resolveOrder, lastResult,
                   clearedSince>>
    /\ UNCHANGED <<proxyVars, call>>

\* the timeout callback with a known destination: setFlightData, then
\* fetchWeather suspends on axios.get
TimerKnownAirport(s) ==
    /\ searches[s].pc = "timer"
    /\ searches[s].to \in AirportCodes
    /\ flightData' = s
    /\ searches' = [searches EXCEPT ![s].pc = "weather", ![s].data = s]
    /\ UNCHANGED <<origin, destination, loading, prediction, predicting, weather, nSearch,
                   resolveOrder, lastResult, clearedSince>>
    /\ UNCHANGED <<proxyVars, call>>

\* axios.get settles: setWeather (reading or placeholder), then the callback
\* resumes with setLoading(false) and fetchAIPrediction
WeatherSettles(s, w) ==
    /\ searches[s].pc = "weather"
    /\ w \in WeatherAfterGet
    /\ weather' = w
    /\ IssuePrediction(s)
    /\ searches' = [searches EXCEPT ![s].pc = "predicting"]
    /\ UNCHANGED <<origin, destination, flightData, prediction, nSearch, resolveOrder,
                   lastResult, clearedSince>>
    /\ UNCHANGED <<proxyVars, call>>

\* setPrediction as a request-tagged session would apply it: only the
\* response of the latest search is shown
ApplyLatestOnly(s, o) == IF s = nSearch THEN Displayed(o) ELSE prediction

\* the value setPrediction receives when the request of search s settles with o
ApplyResponse(s, o) == Displayed(o)

\* axios.post settles: setPrediction(content or error text), then the finally
\* block's setPredicting(false)
PredictionSettles(s, o) ==
    /\ searches[s].pc = "predicting"
    /\ o \in Outcomes
    /\ prediction' = ApplyResponse(s, o)
    /\ predicting' = FALSE
    /\ searches' = [searches EXCEPT ![s] = DoneSearch]
    /\ resolveOrder' = Append(resolveOrder, s)
    /\ lastResult' = Displayed(o)
    /\ clearedSince' = FALSE
    /\ UNCHANGED <<origin, destination, loading, flightData, weather, nSearch>>
    /\ UNCHANGED <<proxyVars, call>>



\* ------------------------------------------------------------------------
\* The prediction proxies
\* ------------------------------------------------------------------------
RequestIds == 1..MaxRequests

\* the literal of server.ts's last `||` operand
HardcodedKey == "baeac3bb-34b5-4033-bba4-b9defd1113cb"

\* values an environment variable holds; "" is unset (or set to nothing)
ArkValues == { "", "ark-key-0001" }
DoubaoValues == { "", "db9" }

Methods == { "POST", "OPTIONS", "GET", "DELETE" }

\* req.body: undefined, an object without prompt, an object with prompt
RequestBodies == { "undefined", "noPrompt", "prompt" }

\* bodies a successful chat-completion call returns
UpstreamPayloads == { "completion-A", "completion-B" }

IdleRequest ==
    [pc |-> "idle", entry |-> "", method |-> "", body |-> "", apiKey |-> "",
     credRead |-> FALSE, upstreamCalls |-> 0, forwarded |-> "none",
     upstream |-> "", caught |-> NoError, responses |-> <<>>, logs |-> <<>>]

\* res.status(200).end()
EmptyResponse(status) ==
    [status |-> status, kind |-> "empty", error |-> "", details |-> "",
     type |-> "", code |-> "", payload |-> ""]

\* res.status(405).json({ error: 'Method Not Allowed' })
MethodNotAllowedResponse ==
    [status |-> 405, kind |-> "json", error |-> "Method Not Allowed", details |-> "",
     type |-> "", code |-> "", payload |-> ""]

\* the relay, had it reshaped the body under a `data` wrapper
RelayWrapped(payload) ==
    [status |-> 200, kind |-> "json", error |-> "", details |-> "",
     type |-> "", code |-> "", payload |-> "data:" \o payload]

\* res.status(200).json(response) / res.json(response)
RelayResponse(payload) ==
    [status |-> 200, kind |-> "json", error |-> "", details |-> "",
     type |-> "", code |-> "", payload |-> payload]

\* part_000's catch block
HandlerErrorResponse(e) ==
    [status |-> 500, kind |-> "json", error |-> "Failed to fetch prediction",
     details |-> ErrDetails(e), type |-> "", code |-> "", payload |-> ""]

\* server.ts's catch block
ExpressErrorResponse(e) ==
    [status |-> 500, kind |-> "json", error |-> "Failed to fetch prediction",
     details |-> ErrDetails(e), type |-> OrUnknown(e.type), code |-> OrUnknown(e.code),
     payload |-> ""]

\* what the middleware behind the route (vite.middlewares or
\* express.static('dist'), then Express's own final handlers) answers to a
\* request no route took
UnroutedResponses ==
    { [status |-> st, kind |-> k, error |-> "", details |-> "", type |-> "",
       code |-> "", payload |-> ""] :
         st \in {200, 204, 404}, k \in {"empty", "other"} }

\* apiKey.slice(-4)
SliceLast4(k) == IF Len(k) <= 4 THEN k ELSE SubSeq(k, Len(k) - 3, Len(k))

\* console.log("Using API Key ending in:", apiKey.slice(-4))
KeyLogLine(k) == [level |-> "log", text |-> "Using API Key ending in:", arg |-> SliceLast4(k)]

\* console.error("Doubao API Error:", error)
ErrorLogLine(e) == [level |-> "error", text |-> "Doubao API Error:", arg |-> ErrToString(e)]

\* the resolution with the alias consulted before the primary variable
HandlerKeyAliasFirst ==
    IF env.DOUBAO_API_KEY # "" THEN env.DOUBAO_API_KEY ELSE env.ARK_API_KEY

\* process.env.ARK_API_KEY || process.env.DOUBAO_API_KEY
HandlerKey == IF env.ARK_API_KEY # "" THEN env.ARK_API_KEY ELSE env.DOUBAO_API_KEY

\* process.env.ARK_API_KEY || process.env.DOUBAO_API_KEY || "baeac3bb-..."
ExpressKey == IF HandlerKey # "" THEN HandlerKey ELSE HardcodedKey

\* messages[0].content for a request body
ForwardedContent(body) == IF body = "prompt" THEN "prompt" ELSE "undefined"

\* the next request to come in
NextRequest(r) == reqs[r].pc = "idle" /\ \A q \in RequestIds : q < r => reqs[q].pc # "idle"

\* a caught error ends the request: console.error, then the error response
Failed(r, entry, method, body, credRead, key, logs, e, response) ==
    [pc |-> "done", entry |-> entry, method |-> method, body |-> body, apiKey |-> key,
     credRead |-> credRead, upstreamCalls |-> reqs[r].upstreamCalls,
     forwarded |-> reqs[r].forwarded, upstream |-> "", caught |-> e,
     responses |-> Append(reqs[r].responses, response),
     logs |-> Append(logs, ErrorLogLine(e))]

\* client.chat.completions.create is called and awaited
Awaiting(r, entry, body, key, logs) ==
    [pc |-> "awaiting", entry |-> entry, method |-> "POST", body |-> body, apiKey |-> key,
     credRead |-> TRUE, upstreamCalls |-> reqs[r].upstreamCalls + 1,
     forwarded |-> ForwardedContent(body), upstream |-> "", caught |-> NoError,
     responses |-> reqs[r].responses, logs |-> logs]

\* ---- src/unnamed/part_000: the serverless handler ----
HandlerOptions(r) ==
    /\ NextRequest(r)
    /\ reqs' = [reqs EXCEPT ![r] =
                  [IdleRequest EXCEPT !.pc = "done", !.entry = "vercel", !.method = "OPTIONS",
                                      !.responses = <<EmptyResponse(200)>>]]
    /\ UNCHANGED <<appVars, env, call>>

HandlerOtherMethod(r, method) ==
    /\ NextRequest(r)
    /\ method \notin {"OPTIONS", "POST"}
    /\ reqs' = [reqs EXCEPT ![r] =
                  [IdleRequest EXCEPT !.pc = "done", !.entry = "vercel", !.method = method,
                                      !.responses = <<MethodNotAllowedResponse>>]]
    /\ UNCHANGED <<appVars, env, call>>

\* the try block up to the await
HandlerPost(r, body) ==
    /\ NextRequest(r)
    /\ reqs' = [reqs EXCEPT ![r] =
          IF body = "undefined"
          THEN Failed(r, "vercel", "POST", body, FALSE, "", <<>>, DestructureError,
                      HandlerErrorResponse(DestructureError))
          ELSE IF HandlerKey = ""
          THEN Failed(r, "vercel", "POST", body, TRUE, "", <<>>, MissingKeyError,
                      HandlerErrorResponse(MissingKeyError))
          ELSE Awaiting(r, "vercel", body, HandlerKey, <<>>)]
    /\ UNCHANGED <<appVars, env, call>>

\* ---- src/server.ts: the Express route ----
\* only app.post is registered for the path: other methods pass the route by
ExpressOtherMethod(r, method, response) ==
    /\ NextRequest(r)
    /\ method # "POST"
    /\ response \in UnroutedResponses
    /\ reqs' = [reqs EXCEPT ![r] =
                  [IdleRequest EXCEPT !.pc = "done", !.entry = "express", !.method = method,
                                      !.responses = <<response>>]]
    /\ UNCHANGED <<appVars, env, call>>

\* the try block up to the await
ExpressPost(r, body) ==
    /\ NextRequest(r)
    /\ reqs' = [reqs EXCEPT ![r] =
          IF body = "undefined"
          THEN Failed(r, "express", "POST", body, FALSE, "", <<>>, DestructureError,
                      ExpressErrorResponse(DestructureError))
          ELSE Awaiting(r, "express", body, ExpressKey, <<KeyLogLine(ExpressKey)>>)]
    /\ UNCHANGED <<appVars, env, call>>

\* ---- the awaited upstream call settles (both entry points) ----
ErrorResponseOf(entry, e) ==
    IF entry = "express" THEN ExpressErrorResponse(e) ELSE HandlerErrorResponse(e)

\* the call resolves: the response is relayed
UpstreamResolves(r, payload) ==
    /\ reqs[r].pc = "awaiting"
    /\ payload \in UpstreamPayloads
    /\ reqs' = [reqs EXCEPT ![r].pc = "done", ![r].upstream = payload,
                            ![r].responses = Append(@, RelayResponse(payload))]
    /\ UNCHANGED <<appVars, env, call>>

\* the catch block, had it tried the upstream call once more before answering
UpstreamRejectsRetrying(r, e) ==
    /\ reqs[r].pc = "awaiting"
    /\ e \in UpstreamErrors
    /\ reqs' = [reqs EXCEPT ![r] =
                  IF reqs[r].upstreamCalls < 2
                  THEN [reqs[r] EXCEPT !.upstreamCalls = @ + 1]
                  ELSE Failed(r, reqs[r].entry, "POST", reqs[r].body, TRUE, reqs[r].apiKey,
                              reqs[r].logs, e, ErrorResponseOf(reqs[r].entry, e))]
    /\ UNCHANGED <<appVars, env, call>>

\* the call rejects: the catch block answers
UpstreamRejects(r, e) ==
    /\ reqs[r].pc = "awaiting"
    /\ e \in UpstreamErrors
    /\ reqs' = [reqs EXCEPT ![r] =
                  Failed(r, reqs[r].entry, "POST", reqs[r].body, TRUE, reqs[r].apiKey,
                         reqs[r].logs, e, ErrorResponseOf(reqs[r].entry, e))]
    /\ UNCHANGED <<appVars, env, call>>

ProxyInit ==
    /\ AppInit
    /\ env \in [ARK_API_KEY : ArkValues, DOUBAO_API_KEY : DoubaoValues]
    /\ reqs = [r \in RequestIds |-> IdleRequest]
    /\ call = NoCall

ProxyNext ==
    \/ \E r \in RequestIds : HandlerOptions(r)
    \/ \E r \in RequestIds, m \in Methods : HandlerOtherMethod(r, m)
    \/ \E r \in RequestIds, b \in RequestBodies : HandlerPost(r, b)
    \/ \E r \in RequestIds, m \in Methods, rsp \in UnroutedResponses :
          ExpressOtherMethod(r, m, rsp)
    \/ \E r \in RequestIds, b \in RequestBodies : ExpressPost(r, b)
    \/ \E r \in RequestIds, p \in UpstreamPayloads : UpstreamResolves(r, p)
    \/ \E r \in RequestIds, e \in UpstreamErrors : UpstreamRejects(r, e)

ProxySpec == ProxyInit /\ [][ProxyNext]_vars

\* ---- the proxies under an environment that is reconfigured while they run ----
\* process.env is read anew by every request, so a variable set, changed or
\* removed between two requests is what the later one sees
EnvChanges(name, value) ==
    /\ name \in {"ARK_API_KEY", "DOUBAO_API_KEY"}
    /\ value \in (IF name = "ARK_API_KEY" THEN ArkValues ELSE DoubaoValues)
    /\ value # env[name]
    /\ env' = [env EXCEPT ![name] = value]
    /\ UNCHANGED <<appVars, reqs, call>>

\* POST requests only: no other method reads the environment
EnvNext ==
    \/ \E r \in RequestIds, b \in RequestBodies : HandlerPost(r, b)
    \/ \E r \in RequestIds, b \in RequestBodies : ExpressPost(r, b)
    \/ \E r \in RequestIds, p \in UpstreamPayloads : UpstreamResolves(r, p)
    \/ \E r \in RequestIds, e \in UpstreamErrors : UpstreamRejects(r, e)
    \/ \E name \in {"ARK_API_KEY", "DOUBAO_API_KEY"}, value \in ArkValues \cup DoubaoValues :
          EnvChanges(name, value)

EnvSpec == ProxyInit /\ [][EnvNext]_vars

\* ------------------------------------------------------------------------
\* One axios.post of fetchAIPrediction taken alone: the outcome it settles
\* with and the value it hands to setPrediction
\* ------------------------------------------------------------------------
SettleCall ==
    /\ call # NoCall
    /\ ~call.settled
    /\ call' = [call EXCEPT !.result = Displayed(call.arg), !.settled = TRUE]
    /\ UNCHANGED <<appVars, proxyVars>>

DisplayInit ==
    /\ AppInit
    /\ env = [ARK_API_KEY |-> "", DOUBAO_API_KEY |-> ""]
    /\ reqs = <<>>
    /\ call \in { [arg |-> o, result |-> Null, settled |-> FALSE] : o \in Outcomes }

DisplaySpec == DisplayInit /\ [][SettleCall]_vars

\* ------------------------------------------------------------------------
\* fetchAIPrediction: the summary of the price series put into the prompt
\* ------------------------------------------------------------------------
MaxLen == 11
WindowSize == 10     \* data.slice(0, 10)
TrendSample == 10    \* prices[9], the tenth element
Prices == {450, 455}  \* d.price, integers (Math.round) not below 200

NaN == [t |-> "nan", v |-> "NaN"]

\* data.slice(0, n)
Slice(data, n) == SubSeq(data, 1, IF Len(data) < n THEN Len(data) ELSE n)

\* prices.reduce((a, b) => a + b, 0)
RECURSIVE Reduce(_, _)
Reduce(prices, i) == IF i = 0 THEN 0 ELSE Reduce(prices, i - 1) + prices[i]

\* Math.round(sum / count): the nearest integer, halves upwards; 0 / 0 is NaN
Round(sum, count) ==
    IF count = 0 THEN NaN ELSE Num((2 * sum + count) \div (2 * count))

\* prices[i] of JavaScript, undefined past the end
At(prices, i) == IF i \in DOMAIN prices THEN Num(prices[i]) ELSE Undefined

\* a > b on numbers; a comparison with undefined (NaN) is false
Greater(a, b) == a.t = "number" /\ b.t = "number" /\ a.v > b.v

PromptSummaryWholeSeries(data) ==
    [ currentPrice |-> At(data, 1),
      averagePrice |-> Round(Reduce(data, Len(data)), Len(data)),
      trend        |-> IF Greater(At(data, TrendSample), At(data, 1))
                       THEN "Increasing" ELSE "Decreasing" ]

PromptSummary(data) ==
    LET prices == Slice(data, WindowSize)
    IN  [ currentPrice |-> At(prices, 1),
          averagePrice |-> Round(Reduce(prices, Len(prices)), Len(prices)),
          trend        |-> IF Greater(At(prices, TrendSample), At(prices, 1))
                           THEN "Increasing" ELSE "Decreasing" ]

Series == UNION { [1..n -> Prices] : n \in 0..MaxLen }

\* the prompt is built from the series handed to fetchAIPrediction
BuildPrompt ==
    /\ call # NoCall
    /\ call.prompt = Null
    /\ call' = [call EXCEPT !.prompt = PromptSummary(call.data)]
    /\ UNCHANGED <<appVars, proxyVars>>

PromptInit ==
    /\ AppInit
    /\ env = [ARK_API_KEY |-> "", DOUBAO_API_KEY |-> ""]
    /\ reqs = <<>>
    /\ call \in { [data |-> d, prompt |-> Null] : d \in Series }

PromptSpec == PromptInit /\ [][BuildPrompt]_vars

\* ------------------------------------------------------------------------
\* The browser session
\* ------------------------------------------------------------------------
Init ==
    /\ AppInit
    /\ env = [ARK_API_KEY |-> "", DOUBAO_API_KEY |-> ""]
    /\ reqs = <<>>
    /\ call = NoCall

Next ==
    \/ \E code \in TypedCodes : SetOrigin(code)
    \/ \E code \in TypedCodes : SetDestination(code)
    \/ HandleSearch
    \/ \E s \in SearchIds, w \in RandomWeather : TimerUnknownAirport(s, w)
    \/ \E s \in SearchIds : TimerKnownAirport(s)
    \/ \E s \in SearchIds, w \in WeatherAfterGet : WeatherSettles(s, w)
    \/ \E s \in SearchIds, o \in Outcomes : PredictionSettles(s, o)

Spec == Init /\ [][Next]_vars

\* ========================================================================
\* Properties
\* ========================================================================
Range(f) == { f[i] : i \in DOMAIN f }

\* prediction requests issued and not yet settled
InFlight == { s \in SearchIds : searches[s].pc = "predicting" }

\* C1: a new search cancels nothing, and whatever response settled last is what
\* the panel holds, whichever search issued it: unless a later handleSearch has
\* cleared it, prediction is the value of the most recently settled response;
\* a request leaves flight only by settling; pending work is one boolean.
C1_LastSettledResponseWins ==
    /\ predicting \in BOOLEAN
    /\ \A s \in SearchIds : searches[s].pc = "done" <=> s \in Range(resolveOrder)
    /\ InFlight \cap Range(resolveOrder) = {}
    /\ (resolveOrder # <<>> /\ ~clearedSince) => prediction = lastResult
    /\ clearedSince => prediction = Null

\* C1 witness: search 2 was started and answered while the request of search 1
\* was in flight, the older response settled last and is the one displayed.
C1_StaleResponseDisplayed ==
    /\ resolveOrder = <<2, 1>>
    /\ InFlight = {}
    /\ ~clearedSince
    /\ prediction = lastResult
    /\ IsString(prediction)

\* C2: whenever some prediction request has not settled, predicting is true.
C2_PredictingWhileAnyInFlight == InFlight # {} => predicting

\* C3: every settled call leaves a non-empty string in prediction and, once
\* nothing is in flight, predicting false.
C3_SettledCallLeavesText ==
    resolveOrder # <<>> =>
        /\ IsString(lastResult)
        /\ lastResult.v # ""
        /\ (InFlight = {} => ~predicting)

\* the first of the two probes that yields a string, else the fallback text
FirstStringOrFallback(data) ==
    IF IsString(ProbeContent(data.direct)) THEN ProbeContent(data.direct)
    ELSE IF IsString(ProbeContent(data.wrapped)) THEN ProbeContent(data.wrapped)
    ELSE Str(FallbackText)

\* C4: for a 2xx body the displayed text is the first probe (body, then data
\* wrapper) that yields a string, and exactly the fallback text if neither does.
C4_FirstStringElseFallback ==
    (call.settled /\ call.arg.kind = "ok") => call.result = FirstStringOrFallback(call.arg.data)

\* credentials absent from the environment
NoCredential == env.ARK_API_KEY = "" /\ env.DOUBAO_API_KEY = ""

\* requests that have come in
Arrived == { r \in RequestIds : reqs[r].pc # "idle" }
Posts == { r \in Arrived : reqs[r].method = "POST" }

Is4xx(status) == status >= 400 /\ status <= 499
Is5xx(status) == status >= 500 /\ status <= 599
Is2xx(status) == status >= 200 /\ status <= 299

\* C5: with neither ARK_API_KEY nor DOUBAO_API_KEY set, a POST to either entry
\* point makes no upstream call and is answered 5xx with an error body.
C5_NoCredentialFailsBeforeUpstream ==
    NoCredential =>
        \A r \in Posts :
            /\ reqs[r].upstreamCalls = 0
            /\ reqs[r].pc = "done" =>
                  /\ Len(reqs[r].responses) = 1
                  /\ Is5xx(reqs[r].responses[1].status)
                  /\ reqs[r].responses[1].error # ""

\* C6: OPTIONS is answered 200 with an empty body, any method other than POST
\* and OPTIONS is answered 405, neither reads the credential or calls upstream,
\* and only POST reaches the upstream call.
C6_MethodGate ==
    \A r \in Arrived :
        /\ reqs[r].method = "OPTIONS" => reqs[r].responses = <<EmptyResponse(200)>>
        /\ reqs[r].method \notin {"POST", "OPTIONS"} =>
              (Len(reqs[r].responses) = 1 /\ reqs[r].responses[1].status = 405)
        /\ reqs[r].method # "POST" => (~reqs[r].credRead /\ reqs[r].upstreamCalls = 0)

\* C7: a POST without a body or without a prompt is answered 4xx, and no
\* undefined prompt is forwarded upstream.
C7_MissingPromptIs4xx ==
    \A r \in Posts :
        reqs[r].body \in {"undefined", "noPrompt"} =>
            /\ reqs[r].forwarded # "undefined"
            /\ reqs[r].pc = "done" =>
                  /\ Len(reqs[r].responses) = 1
                  /\ Is4xx(reqs[r].responses[1].status)

\* C8: a POST gets no response while the upstream call is awaited and exactly
\* one when it is done: 200 with the upstream body as received if the call
\* succeeded, otherwise a non-2xx JSON body with an error summary and details
\* taken from the caught error's message.
C8_ExactlyOneResponse ==
    \A r \in Posts :
        /\ reqs[r].pc = "awaiting" => reqs[r].responses = <<>>
        /\ reqs[r].pc = "done" =>
              /\ Len(reqs[r].responses) = 1
              /\ LET rsp == reqs[r].responses[1] IN
                    IF reqs[r].upstream # ""
                    THEN /\ rsp.status = 200
                         /\ rsp.kind = "json"
                         /\ rsp.payload = reqs[r].upstream
                         /\ rsp.error = ""
                         /\ reqs[r].caught = NoError
                    ELSE /\ ~Is2xx(rsp.status)
                         /\ rsp.kind = "json"
                         /\ rsp.error # ""
                         /\ rsp.details # ""
                         /\ reqs[r].caught # NoError
                         /\ reqs[r].caught.message # "" => rsp.details = reqs[r].caught.message
                         /\ rsp.payload = ""

\* C8 witness: one POST relayed with 200 and another answered by the catch block.
C8_RelayedAndFailed ==
    \E r, q \in Posts :
        /\ reqs[r].pc = "done" /\ reqs[r].upstream \in UpstreamPayloads
        /\ reqs[r].responses = <<RelayResponse(reqs[r].upstream)>>
        /\ reqs[q].pc = "done" /\ reqs[q].caught \in UpstreamErrors
        /\ Len(reqs[q].responses) = 1
        /\ reqs[q].responses[1].status = 500

AnalysisError(detail) == Str("Analysis Error: " \o detail \o ". Please check API Key configuration.")

\* C10: a failed call displays "Analysis Error: {detail}. Please check API Key
\* configuration." with detail the error body's details field when the proxy
\* supplied one, and the transport error's message only otherwise.
C10_ErrorTextPrefersServerDetails ==
    (call.settled /\ call.arg.kind \in {"http", "transport"}) =>
        call.result =
            IF call.arg.details # Undefined
            THEN AnalysisError(call.arg.details.v)
            ELSE AnalysisError(call.arg.message.v)

\* C10 witness: a non-2xx answer carrying details has been rendered with them.
C10_ServerDetailsShown ==
    /\ call.settled
    /\ call.arg.kind = "http"
    /\ call.arg.details = Str("Missing ARK_API_KEY environment variable")
    /\ call.result = AnalysisError("Missing ARK_API_KEY environment variable")

\* needle occurs in text as a contiguous part
Contains(text, needle) ==
    \E i \in 1..(Len(text) - Len(needle) + 1) : SubSeq(text, i, i + Len(needle) - 1) = needle

\* the strings a response body carries
ResponseTexts(rsp) == { rsp.error, rsp.details, rsp.type, rsp.code, rsp.payload }

\* C11: for every credential a request resolved, whatever its length, no
\* response body and no log line of that request contains the whole credential.
C11_NoRawCredential ==
    \A r \in Arrived :
        reqs[r].apiKey # "" =>
            /\ \A i \in DOMAIN reqs[r].logs : ~Contains(reqs[r].logs[i].arg, reqs[r].apiKey)
            /\ \A i \in DOMAIN reqs[r].responses :
                  \A t \in ResponseTexts(reqs[r].responses[i]) : ~Contains(t, reqs[r].apiKey)

\* C12: the credential a request resolves is read from the environment as it
\* is when the request is handled: ARK_API_KEY whenever that is set, and
\* DOUBAO_API_KEY only when ARK_API_KEY is not set; no upstream call is made
\* without a credential, and a request keeps the credential it resolved.
C12_PrimaryKeyFirstAtRequestTime ==
    [][\A r \in RequestIds :
          /\ (reqs[r].pc = "idle" /\ reqs'[r].pc # "idle" /\ reqs'[r].credRead) =>
                /\ env.ARK_API_KEY # "" => reqs'[r].apiKey = env.ARK_API_KEY
                /\ (env.ARK_API_KEY = "" /\ env.DOUBAO_API_KEY # "") =>
                      reqs'[r].apiKey = env.DOUBAO_API_KEY
                /\ (env.DOUBAO_API_KEY # "" /\ reqs'[r].apiKey = env.DOUBAO_API_KEY) =>
                      env.ARK_API_KEY = ""
                /\ reqs'[r].upstreamCalls > 0 => reqs'[r].apiKey # ""
          /\ reqs[r].pc # "idle" => reqs'[r].apiKey = reqs[r].apiKey
      ]_vars

\* C12 witness: one request resolved the alias while the primary variable was
\* unset, and after the environment changed a later one resolved the primary
\* variable although the alias is still set.
C12_BothKeysUsedInTurn ==
    \E r, q \in Posts :
        /\ r < q
        /\ reqs[r].apiKey = "db9"
        /\ reqs[q].upstreamCalls = 1
        /\ env.DOUBAO_API_KEY = "db9"
        /\ env.ARK_API_KEY # ""
        /\ reqs[q].apiKey = env.ARK_API_KEY

\* the sum of the first n samples of a series
RECURSIVE WindowSum(_, _)
WindowSum(d, n) == IF n = 0 THEN 0 ELSE d[n] + WindowSum(d, n - 1)

Built == call # NoCall /\ call.prompt # Null

\* C13: for every non-empty price series the summary covers exactly the
\* first min(10, length) samples: the current price is the first sample, the
\* average is the integer nearest to the mean of that window, and the trend
\* is "Increasing" when a tenth sample exists and exceeds the first and
\* "Decreasing" otherwise; a series shorter than ten samples is summarised
\* over all of its samples, with numbers and not with a failure.
C13_SummaryOverFirstTen ==
    (Built /\ Len(call.data) >= 1) =>
        LET d == call.data
            n == IF Len(d) < 10 THEN Len(d) ELSE 10
            a == call.prompt.averagePrice
        IN  /\ call.prompt.currentPrice = Num(d[1])
            /\ a.t = "number"
            /\ 2 * a.v * n - n <= 2 * WindowSum(d, n)
            /\ 2 * WindowSum(d, n) < 2 * a.v * n + n
            /\ call.prompt.trend \in {"Increasing", "Decreasing"}
            /\ call.prompt.trend = "Increasing" <=> (Len(d) >= 10 /\ d[10] > d[1])

\* C13 witness: a rising series of fewer than ten samples has been summarised
\* over its whole length, with a mean that falls exactly between two integers
C13_ShortSeriesSummarised ==
    /\ Built
    /\ call.data = <<450, 455>>
    /\ call.prompt.averagePrice = Num(453)
    /\ call.prompt.trend = "Decreasing"

\* search s, as recorded in ss, is between setLoading(true) and setLoading(false)
LoadingPhase(ss, s) == ss[s].pc \in {"timer", "weather"}

\* the prediction request of search s, as recorded in ss, has been issued
Issued(ss, s) == ss[s].pc \in {"predicting", "done"}

\* C14: within one search the prediction request is issued once, in a step
\* that leaves this search's flight data set, a weather value present and
\* loading false; a search whose request was issued never issues another;
\* whenever the weather fetch settles, with a reading or with a failure
\* (unknown airport code, failed request), that step sets loading to false
\* and issues the request; and since Analyze is disabled while loading, at
\* most one search is in its loading phase, exactly when loading is true.
C14_PredictionOnceAfterLoading ==
    [][ /\ \A s \in SearchIds :
              /\ (~Issued(searches, s) /\ Issued(searches', s)) =>
                    /\ LoadingPhase(searches, s)
                    /\ searches'[s].pc = "predicting"
                    /\ flightData' = s
                    /\ weather' # NoWeather
                    /\ loading' = FALSE
                    /\ predicting' = TRUE
              /\ Issued(searches, s) => Issued(searches', s)
              /\ (searches[s].pc = "weather" /\ searches'[s].pc # "weather") =>
                    Issued(searches', s) /\ flightData = s
              /\ (searches[s].pc = "timer" /\ searches'[s].pc # "timer"
                    /\ searches[s].to \notin AirportCodes) => Issued(searches', s)
        /\ Cardinality({ s \in SearchIds : LoadingPhase(searches', s) }) <= 1
        /\ loading' <=> \E s \in SearchIds : LoadingPhase(searches', s)
      ]_vars

\* C14 witness: the second search's weather request failed, and its
\* prediction request is in flight with loading back to false
C14_IssuedAfterWeatherFailure ==
    /\ nSearch = 2
    /\ searches[2].pc = "predicting"
    /\ searches[2].to \in AirportCodes
    /\ weather = UnavailableWeather
    /\ flightData = 2
    /\ ~loading
    /\ predicting

====
